---- MODULE Spec2Model ----
\* A model of the crate `disown` (src/src/lib.rs): the trait Disown, its blanket
\* implementation `impl<T> Disown for T { fn disown(self) {} }`, and the caller
\* programs the crate documentation describes (values going out of scope at the
\* end of their block, `set.insert(k).disown()` in match arms).
EXTENDS Integers, Sequences, FiniteSets, TLC

\* ---------------------------------------------------------------- bounds
\* independent execution contexts (threads)
NumCtx == 2
\* owned bindings besides the container `set`
NumVals == 2

Ctx == 1..NumCtx
\* `let mut set = HashSet::new();` is the first binding declared.
SetId == 0
\* The bindings, in declaration order.
Vals == SetId..NumVals
\* The id of a temporary (the bool `set.insert(k)` returns): no binding.
TempId == -1

\* The context whose block declares binding v: `set` lives in the first one,
\* the others are spread over the contexts in turn.
Owner(v) == IF v = SetId THEN 1 ELSE ((v - 1) % NumCtx) + 1

\* ---------------------------------------------------------------- values
Val(t, d) == [ty |-> t, data |-> d]
Unit == Val("unit", 0)           \* the value `()`
NoValue == Val("none", 0)        \* no value (an empty frame, no result yet)

\* The values a caller may bind to a local: any T, since the impl is for all T.
\*   i32       plain integers                         (no Drop)
\*   unit      the unit value itself                  (no Drop)
\*   Guard     a type with `impl Drop` that increments an external counter
\* (the container type is HashSet, below).
LocalValues ==
    {Val("i32", 5), Val("i32", 7), Unit, Val("Guard", 0)}

\* HashSet<i32> over the keys {0, 1}, its contents held as a bit mask in data.
HasKey(v, k) == (v.data \div (2 ^ k)) % 2 = 1
WithKey(v, k) == IF HasKey(v, k) THEN v ELSE Val(v.ty, v.data + 2 ^ k)
EmptySet == Val("HashSet", 0)

\* `enum Person { Bob, Sam }` and the key each match arm inserts.
Person == {"Bob", "Sam"}
ArmKey(p) == IF p = "Bob" THEN 0 ELSE 1

VARIABLES
    pc,        \* pc[c]: "run" (in the caller), "in_disown" (inside the call), "done"
    val,       \* val[v]: the value bound to v
    status,    \* status[v]: "owned", "moved" (moved out of), "dropped"
    frame,     \* frame[c]: `self` of the running disown call, else NoValue
    arg,       \* arg[c]: what the caller's last disown call was applied to
    ret,       \* ret[c]: the value of the caller's last disown call expression
    obs,       \* the observable state: the drop counter and each context's drop log
    ref,       \* obs of the same program with each `v.disown()` written `{ v; }`
    released,  \* released[v]: how many times v has been released
    retained,  \* values disown still holds after a call has returned
    disowned   \* the bindings disown has been called on

vars == <<pc, val, status, frame, arg, ret, obs, ref, released, retained, disowned>>

\* ---------------------------------------------------------------- drop glue
\* The number of times Guard::drop runs when v is released.
DropGlue(v) == IF v.ty = "Guard" THEN 1 ELSE 0

RECURSIVE Repeat(_, _)
Repeat(x, n) == IF n = 0 THEN <<>> ELSE <<x>> \o Repeat(x, n - 1)

\* Context c releases value v, known as id: each Guard::drop bumps the counter
\* and is recorded on the log of the context that runs it.
Release(o, c, id, v) ==
    [counter |-> o.counter + DropGlue(v),
     log |-> [o.log EXCEPT ![c] = @ \o Repeat(id, DropGlue(v))]]

\* A value that goes out of scope at the end of its block is released once.
ScopeExitDrop(o, c, id, v) == Release(o, c, id, v)

\* ---------------------------------------------------------------- disown
\* Each definition of the code is preceded by faulty variants of it (a
\* receiver taken by reference, a body that returns or inspects self, ...),
\* which the properties below are expected to tell apart from the code.

\* `fn disown(self)`: the receiver is taken by value, so the caller's binding
\* is moved out of.
ReceiverByRef == "owned"
ReceiverAfterCall == "moved"

\* The body `{}` evaluates to `()`, whatever self is.
DisownBody_ReturnsSelf(self) == self
DisownBody_InspectsSelf(self) == IF self.data = 5 THEN Val("bool", 1) ELSE Unit
DisownBody_ReturnsBool(self) == Val("bool", 1)
DisownBody_Fails(self) == IF self.ty = "Guard" THEN Val("err", 0) ELSE Unit
DisownBody(self) == Unit

\* What the callee's frame owns when the function exits: its parameter self,
\* which the body never moves anywhere. Each is dropped as the frame unwinds.
OwnedAtExit_Forget(self) == <<>>
OwnedAtExit_Twice(self) == <<self, self>>
OwnedAtExit(self) == <<self>>

\* What a call keeps hold of after it has returned: nothing, the body stores
\* nothing.
Retains_Stash(self) == {self}
Retains(self) == {}

\* Whether the body can run to its end: it holds no loop, lock or await.
CanReturn_WaitsForOthers(c) == \A d \in Ctx \ {c} : pc[d] = "done"
CanReturn(c) == TRUE

RECURSIVE ReleaseAll(_, _, _, _)
ReleaseAll(o, c, id, vs) ==
    IF vs = <<>> THEN o
    ELSE ReleaseAll(Release(o, c, id, Head(vs)), c, id, Tail(vs))

\* ---------------------------------------------------------------- initial state
NoArg == [op |-> "none", val |-> NoValue, id |-> TempId, key |-> 0]

Init ==
    /\ pc = [c \in Ctx |-> "run"]
    /\ val \in {f \in [Vals -> LocalValues \cup {EmptySet}] :
                  /\ f[SetId] = EmptySet
                  /\ \A v \in Vals \ {SetId} : f[v] \in LocalValues}
    /\ status = [v \in Vals |-> "owned"]
    /\ frame = [c \in Ctx |-> NoValue]
    /\ arg = [c \in Ctx |-> NoArg]
    /\ ret = [c \in Ctx |-> NoValue]
    /\ obs = [counter |-> 0, log |-> [c \in Ctx |-> <<>>]]
    /\ ref = [counter |-> 0, log |-> [c \in Ctx |-> <<>>]]
    /\ released = [v \in Vals |-> 0]
    /\ retained = {}
    /\ disowned = {}

\* ---------------------------------------------------------------- actions
\* `v.disown()` on a binding the caller owns: self is moved into the callee.
CallDisown(c, v) ==
    /\ pc[c] = "run"
    /\ Owner(v) = c
    /\ status[v] = "owned"
    /\ status' = [status EXCEPT ![v] = ReceiverAfterCall]
    /\ frame' = [frame EXCEPT ![c] = val[v]]
    /\ arg' = [arg EXCEPT ![c] = [op |-> "disown", val |-> val[v], id |-> v, key |-> 0]]
    /\ ret' = [ret EXCEPT ![c] = NoValue]
    /\ pc' = [pc EXCEPT ![c] = "in_disown"]
    /\ disowned' = disowned \cup {v}
    /\ UNCHANGED <<val, obs, ref, released, retained>>

\* A match arm `Person::p => set.insert(k).disown()`: the insert takes effect
\* and the bool it returns, a temporary, is moved into the callee.
MatchArm(c, p) ==
    /\ pc[c] = "run"
    /\ Owner(SetId) = c
    /\ status[SetId] = "owned"
    /\ LET k == ArmKey(p)
           flag == Val("bool", IF HasKey(val[SetId], k) THEN 0 ELSE 1)
       IN /\ val' = [val EXCEPT ![SetId] = WithKey(@, k)]
          /\ frame' = [frame EXCEPT ![c] = flag]
          /\ arg' = [arg EXCEPT ![c] = [op |-> "arm", val |-> flag, id |-> TempId, key |-> k]]
    /\ ret' = [ret EXCEPT ![c] = NoValue]
    /\ pc' = [pc EXCEPT ![c] = "in_disown"]
    /\ UNCHANGED <<status, obs, ref, released, retained, disowned>>

\* The call runs its empty body and returns: what the frame owns is dropped and
\* the call expression takes the body's value.
ReturnDisown(c) ==
    /\ pc[c] = "in_disown"
    /\ CanReturn(c)
    /\ LET self == frame[c]
           id == arg[c].id
           owned == OwnedAtExit(self)
       IN /\ obs' = ReleaseAll(obs, c, id, owned)
          /\ ref' = ScopeExitDrop(ref, c, id, self)
          /\ released' = IF id = TempId THEN released
                         ELSE [released EXCEPT ![id] = @ + Len(owned)]
          /\ ret' = [ret EXCEPT ![c] = DisownBody(self)]
          /\ retained' = retained \cup Retains(self)
    /\ frame' = [frame EXCEPT ![c] = NoValue]
    /\ pc' = [pc EXCEPT ![c] = "run"]
    /\ UNCHANGED <<val, status, arg, disowned>>

\* The caller reads (borrows) a binding it still owns: no effect on the state.
Use(c, v) ==
    /\ pc[c] = "run"
    /\ Owner(v) = c
    /\ status[v] = "owned"
    /\ UNCHANGED vars

\* The end of the caller's block: the bindings it still owns are dropped, in
\* reverse order of declaration.
Live(c) == {v \in Vals : Owner(v) = c /\ status[v] = "owned"}

RECURSIVE DropLocals(_, _, _)
DropLocals(o, c, v) ==
    IF v < SetId THEN o
    ELSE DropLocals(IF v \in Live(c) THEN ScopeExitDrop(o, c, v, val[v]) ELSE o,
                    c, v - 1)

ScopeEnd(c) ==
    /\ pc[c] = "run"
    /\ obs' = DropLocals(obs, c, NumVals)
    /\ ref' = DropLocals(ref, c, NumVals)
    /\ released' = [v \in Vals |-> IF v \in Live(c) THEN released[v] + 1 ELSE released[v]]
    /\ status' = [v \in Vals |-> IF v \in Live(c) THEN "dropped" ELSE status[v]]
    /\ pc' = [pc EXCEPT ![c] = "done"]
    /\ UNCHANGED <<val, frame, arg, ret, retained, disowned>>

Next ==
    \/ \E c \in Ctx, v \in Vals : CallDisown(c, v)
    \/ \E c \in Ctx, p \in Person : MatchArm(c, p)
    \/ \E c \in Ctx : ReturnDisown(c)
    \/ \E c \in Ctx, v \in Vals : Use(c, v)
    \/ \E c \in Ctx : ScopeEnd(c)

Spec == Init /\ [][Next]_vars

\* The call is synchronous: a context inside disown keeps running it.
FairSpec == Spec /\ \A c \in Ctx : WF_vars(ReturnDisown(c))

\* ---------------------------------------------------------------- helpers
\* The caller of context c has a disown call behind it (its last expression).
Returned(c) == arg[c].op \in {"disown", "arm"} /\ pc[c] # "in_disown"
AllDone == \A c \in Ctx : pc[c] = "done"

RECURSIVE Count(_, _)
Count(s, x) ==
    IF s = <<>> THEN 0 ELSE (IF Head(s) = x THEN 1 ELSE 0) + Count(Tail(s), x)

RECURSIVE LogTotal(_)
LogTotal(c) == IF c = 0 THEN 0 ELSE Len(obs.log[c]) + LogTotal(c - 1)

RECURSIVE GlueTotal(_)
GlueTotal(v) == IF v < SetId THEN 0 ELSE DropGlue(val[v]) + GlueTotal(v - 1)

Failure == {"err", "panic"}

\* ---------------------------------------------------------------- claims
\* C1: disown can be called on every owned value, of whatever type (plain,
\* with custom release behaviour, a container, the unit value), and the call
\* expression evaluates to exactly the unit value.
C1_ResultIsUnit ==
    /\ \A c \in Ctx, v \in Vals :
         (pc[c] = "run" /\ Owner(v) = c /\ status[v] = "owned") => ENABLED CallDisown(c, v)
    /\ \A c \in Ctx : Returned(c) => ret[c] = Unit

C1_Witness ==
    /\ Returned(1) /\ arg[1].op = "disown" /\ arg[1].val.ty = "HashSet" /\ ret[1] = Unit
    /\ Returned(2) /\ arg[2].op = "disown" /\ arg[2].val.ty = "Guard" /\ ret[2] = Unit

C3_GuardReleasedOnceAtCall ==
    /\ obs.counter = LogTotal(NumCtx)
    /\ \A v \in disowned :
         val[v].ty = "Guard" =>
            LET c == Owner(v)
                inflight == pc[c] = "in_disown" /\ arg[c].id = v
            IN /\ Count(obs.log[c], v) = (IF inflight THEN 0 ELSE 1)
               /\ released[v] = (IF inflight THEN 0 ELSE 1)

C3_Witness ==
    \E v \in disowned :
        /\ val[v].ty = "Guard"
        /\ pc[Owner(v)] = "done"
        /\ Count(obs.log[Owner(v)], v) = 1
        /\ obs.counter = 1

\* C4: the program with its disown calls and the same program with each value
\* falling out of scope at that point instead have the same observable effects:
\* the same counter and the same release logs, in every state.
C4_SameAsScopeExit == obs = ref

C4_Witness ==
    /\ AllDone
    /\ \E v \in disowned : DropGlue(val[v]) = 1
    /\ \E v \in Vals \ disowned : DropGlue(val[v]) = 1
    /\ obs.counter = 2
    /\ obs = ref

\* C5: disown has no error outcome: no call, on any value, ends in an error
\* value or leaves its context in a state other than running or finished.
C5_NoFailure ==
    \A c \in Ctx :
        /\ pc[c] \in {"run", "in_disown", "done"}
        /\ ret[c].ty \notin Failure
        /\ Returned(c) => ret[c].ty # "none"

C5_Witness ==
    \E c \in Ctx :
        /\ Returned(c)
        /\ arg[c].val.ty = "Guard"
        /\ ret[c].ty \notin Failure
        /\ pc[c] = "run"

\* C6: the result of disown does not depend on the contents of its argument:
\* two contexts that have each called disown on a value of the same type end
\* with the same result and the same (empty) frame, whatever the two values.
C6_IndependentOfContents ==
    \A c1, c2 \in Ctx :
        (Returned(c1) /\ Returned(c2) /\ arg[c1].val.ty = arg[c2].val.ty)
            => /\ ret[c1] = ret[c2]
               /\ frame[c1] = frame[c2]

C6_Witness ==
    /\ Returned(1) /\ Returned(2)
    /\ arg[1].val = Val("i32", 5)
    /\ arg[2].val = Val("i32", 7)
    /\ ret[1] = ret[2]

\* C7: a match arm `set.insert(k).disown()` evaluates to the unit value whether
\* the flag was true or false, and the insert has taken effect: the container
\* holds k and has not been moved.
C7_ArmIsUnitAndInserted ==
    \A c \in Ctx :
        arg[c].op = "arm" =>
            /\ HasKey(val[SetId], arg[c].key)
            /\ status[SetId] # "moved"
            /\ Returned(c) => ret[c] = Unit

C7_Witness ==
    \E c \in Ctx :
        /\ arg[c].op = "arm" /\ Returned(c)
        /\ arg[c].val = Val("bool", 0)
        /\ arg[c].key = 1
        /\ val[SetId].data = 3
        /\ ret[c] = Unit

\* C8: with several contexts calling disown on their own values, under every
\* interleaving no value is released twice, a context releases only its own
\* values, and once all contexts have finished every value has been released
\* exactly once and the counter and the logs are what the values determine.
C8_IndependentContexts ==
    /\ \A v \in Vals : released[v] <= 1
    /\ \A c \in Ctx : \A i \in 1..Len(obs.log[c]) : Owner(obs.log[c][i]) = c
    /\ \A c \in Ctx : frame[c] # NoValue => pc[c] = "in_disown"
    /\ AllDone =>
         /\ \A v \in Vals : released[v] = 1
         /\ \A v \in Vals : Count(obs.log[Owner(v)], v) = DropGlue(val[v])
         /\ obs.counter = GlueTotal(NumVals)

C8_Witness ==
    /\ pc[1] = "in_disown" /\ DropGlue(frame[1]) > 0
    /\ pc[2] = "in_disown" /\ DropGlue(frame[2]) > 0

\* C9: a disown call changes nothing but its argument: across the call and
\* across the return every other binding keeps its status, value and release
\* count, the other contexts are untouched, nothing is retained, and for a
\* value without release behaviour the observable state is unchanged.
CallStep(c) == pc[c] = "run" /\ pc'[c] = "in_disown" /\ arg'[c].op = "disown"
ReturnStep(c) == pc[c] = "in_disown" /\ pc'[c] = "run"
OthersUnchanged(c) ==
    \A d \in Ctx \ {c} :
        /\ pc'[d] = pc[d] /\ frame'[d] = frame[d] /\ arg'[d] = arg[d] /\ ret'[d] = ret[d]
        /\ obs'.log[d] = obs.log[d]

C9_Step ==
    \A c \in Ctx :
        /\ CallStep(c) =>
             /\ \A w \in Vals \ {arg'[c].id} : status'[w] = status[w]
             /\ val' = val /\ released' = released /\ obs' = obs
             /\ OthersUnchanged(c)
        /\ ReturnStep(c) =>
             /\ val' = val /\ status' = status
             /\ \A w \in Vals \ {arg[c].id} : released'[w] = released[w]
             /\ frame'[c] = NoValue
             /\ retained' = {}
             /\ DropGlue(frame[c]) = 0 => obs' = obs
             /\ OthersUnchanged(c)

C9_FrameOfDisown == [][C9_Step]_vars

C9_Witness ==
    /\ Returned(1) /\ arg[1].op = "disown" /\ arg[1].id = 1 /\ pc[1] = "run"
    /\ status[SetId] = "owned" /\ val[SetId].data = 3
    /\ status[2] = "owned"
    /\ retained = {}

\* C10: a call of disown that has started always completes: while it runs the
\* caller can do nothing else, its return is always enabled, and under the
\* call's own progress it is eventually back in the caller with its result.
C10_CallCompletes ==
    /\ [](\A c \in Ctx : pc[c] = "in_disown" =>
            /\ ENABLED ReturnDisown(c)
            /\ ~ENABLED ScopeEnd(c)
            /\ \A v \in Vals : ~ENABLED CallDisown(c, v) /\ ~ENABLED Use(c, v))
    /\ \A c \in Ctx : (pc[c] = "in_disown") ~> (pc[c] = "run" /\ frame[c] = NoValue)

C10_Witness ==
    /\ pc[1] = "run" /\ arg[1].op = "arm" /\ frame[1] = NoValue
    /\ pc[2] = "run" /\ arg[2].op = "disown" /\ DropGlue(arg[2].val) = 1
    /\ obs.counter = 1

====
